---- MODULE Spec2Model ----
(***************************************************************************)
(* Model of backend/main.go (srv.us): the tunnel registry (server.conns,   *)
(* server.endpoints), the per-connection goroutines of                     *)
(* serveSSHConnection and the HTTPS task serveHTTPSConnection.             *)
(*                                                                         *)
(* Pointers are modelled by an address field: a *target and a *tunnelRef   *)
(* are records carrying the address the allocation returned, and the Go    *)
(* maps keyed by pointer compare addresses only.  An address is the pair   *)
(* of the connection whose goroutine allocated the object and the number   *)
(* of objects that goroutine has kept so far, so that no two live objects  *)
(* share one.  A panic of any goroutine ends the process: panicSite names *)
(* the call that panicked, after which nothing runs.                       *)
(***************************************************************************)
EXTENDS Integers, Sequences, FiniteSets, TLC

\* ------------------------------------------------------------------ bounds
\* well-formed tcpip-forward and cancel-tcpip-forward requests the clients
\* send, over all tunnel-control connections
MaxReqs == 2
\* session channels the clients open, over all tunnel-control connections
MaxSess == 2

\* ------------------------------------------------------------- the universe
Conns == {"c1", "c2"}
Keys == {"k1", "k2"}
\* the public key each client holds and authenticates with: every client its own
ClientKey(c) == IF c = "c1" THEN "k1" ELSE "k2"
Ports == {1, 2}
Sess == 1..MaxSess
Https == {"h1"}
NoKey == "nil"
NoConn == "noconn"
\* *domain
domain == <<"domain", "srv.us", 0>>
\* conn.User() of every client of the model
User == "alice"
\* payload.BindAddr of every request of the model
BindAddr == "localhost"

\* ------------------------------------------------------------ pure functions
\* base64.RawStdEncoding.EncodeToString(key.Marshal()): injective in the key
KeyIDOf(k) == <<"b64", k>>

\* the fingerprint name: b32(sha256(key || 0 || itoa(port))[:16]) "." domain
FingerprintHost(k, port) == <<"b32", k, port>>

\* user ".gh." domain for port 1, user "--" port ".gh." domain otherwise
GithubHost(user, port) == IF port = 1 THEN <<"gh", user, 0>> ELSE <<"gh", user, port>>

\* user "-" port ".gl." domain
GitlabHost(user, port) == <<"gl", user, port>>

endpointURLs(user, k, port, githubEnabled, gitlabEnabled) ==
    <<FingerprintHost(k, port)>>
        \o (IF githubEnabled THEN <<GithubHost(user, port)>> ELSE <<>>)
        \o (IF gitlabEnabled THEN <<GitlabHost(user, port)>> ELSE <<>>)

Range(seq) == {seq[i] : i \in DOMAIN seq}

\* every hostname a client of the model can register, and one nobody registers
Hostnames ==
    {FingerprintHost(k, p) : k \in Keys, p \in Ports}
        \cup {GithubHost(User, p) : p \in Ports}
        \cup {GitlabHost(User, p) : p \in Ports}
NoSuchHost == <<"b32", "nosuch", 0>>

\* &target{KeyID, Remote, Host, Port} allocated at address addr
NewTarget(addr, keyID, conn, host, port) ==
    [addr |-> addr, KeyID |-> keyID, Remote |-> conn, Host |-> host, Port |-> port]

\* &tunnelRef{Endpoint, Target} allocated at address addr
NewTunnelRef(addr, endpoint, t) ==
    [addr |-> addr, Endpoint |-> endpoint, Target |-> t]

\* newConnection(keyID, ch)
newConnection(keyID, ch) ==
    [KeyID |-> keyID, Sessions |-> {ch}, TunnelRefs |-> {}, lastPort |-> 0]

\* delete(m, p) on a Go map keyed by pointer: the entry at the same address
DeleteByAddr(set, p) == {x \in set : x.addr # p.addr}

\* delete(s.endpoints, endpoint)
DeleteKey(f, key) == [h \in (DOMAIN f) \ {key} |-> f[h]]

\* s.endpoints[endpoint] = bucket
PutKey(f, key, val) == [h \in (DOMAIN f) \cup {key} |-> IF h = key THEN val ELSE f[h]]

\* ---------------------------------------------------------------- registry
\* A registry value: the two maps of the server struct (Go maps: functions
\* whose domain is the set of keys present), the next free heap address, and
\* whether the operation panicked on a nil *sshConnection.
Registry(cs, eps, hp, pn) == [conns |-> cs, endpoints |-> eps, heap |-> hp, panicked |-> pn]

\* the address the next allocation by conn's goroutine returns
Addr(reg, conn) == <<conn, reg.heap[conn]>>

\* the allocated object is kept: the next allocation returns another address
Bump(hp, conn) == [hp EXCEPT ![conn] = @ + 1]

\* s.endpoints[endpoint][t] = v, or a new bucket {t}
AddToBucket(eps, endpoint, t) ==
    IF endpoint \in DOMAIN eps
    THEN PutKey(eps, endpoint, eps[endpoint] \cup {t})
    ELSE PutKey(eps, endpoint, {t})

\* insertEndpointTarget: the bucket gets t, then the owner's TunnelRefs get a
\* new tunnelRef; a nil owner record panics after the bucket was written.
insertEndpointTarget(reg, endpoint, t) ==
    IF reg.panicked THEN reg
    ELSE LET eps == AddToBucket(reg.endpoints, endpoint, t)
         IN  IF t.Remote \notin DOMAIN reg.conns
             THEN Registry(reg.conns, eps, reg.heap, TRUE)
             ELSE Registry(
                    [reg.conns EXCEPT ![t.Remote].TunnelRefs =
                        @ \cup {NewTunnelRef(Addr(reg, t.Remote), endpoint, t)}],
                    eps, Bump(reg.heap, t.Remote), FALSE)

\* a removal that leaves the emptied bucket under its key
DropFromBucketKeepingKey(eps, endpoint, t) ==
    PutKey(eps, endpoint, DeleteByAddr(eps[endpoint], t))

\* delete(s.endpoints[endpoint], t); the key goes when the bucket is empty
DropFromBucket(eps, endpoint, t) ==
    LET bucket == DeleteByAddr(eps[endpoint], t)
    IN  IF Cardinality(bucket) = 0
        THEN DeleteKey(eps, endpoint)
        ELSE PutKey(eps, endpoint, bucket)

\* removeEndpointTarget: returns at once on an unknown endpoint; otherwise
\* drops t from the bucket and deletes a freshly allocated tunnelRef (which
\* is at no stored address) from the owner's TunnelRefs; a nil owner record
\* panics after the bucket was written.
removeEndpointTarget(reg, endpoint, t) ==
    IF reg.panicked THEN reg
    ELSE IF endpoint \notin DOMAIN reg.endpoints THEN reg
    ELSE LET eps == DropFromBucket(reg.endpoints, endpoint, t)
         IN  IF t.Remote \notin DOMAIN reg.conns
             THEN Registry(reg.conns, eps, reg.heap, TRUE)
             ELSE Registry(
                    [reg.conns EXCEPT ![t.Remote].TunnelRefs =
                        DeleteByAddr(@, NewTunnelRef(Addr(reg, t.Remote), endpoint, t))],
                    eps, reg.heap, FALSE)

\* startSession, under the lock: a new record, or one more session
startSession(reg, keyID, conn, ch) ==
    IF conn \notin DOMAIN reg.conns
    THEN [reg EXCEPT !.conns = PutKey(reg.conns, conn, newConnection(keyID, ch))]
    ELSE [reg EXCEPT !.conns[conn].Sessions = @ \cup {ch}]

\* newPort, under the lock: s.conns[conn].lastPort++ on a uint16; a nil record
\* panics
newPort(reg, conn) ==
    IF conn \notin DOMAIN reg.conns
    THEN [reg EXCEPT !.panicked = TRUE]
    ELSE [reg EXCEPT !.conns[conn].lastPort = (@ + 1) % 65536]

\* the registry part of endSession, under the lock
endSession(reg, conn, ch) ==
    IF conn \notin DOMAIN reg.conns THEN reg
    ELSE [reg EXCEPT !.conns[conn].Sessions = @ \ {ch}]

\* endSession's "if len(c.Sessions) == 0": it starts a goroutine closing conn
endSessionCloses(reg, conn, ch) ==
    /\ conn \in DOMAIN reg.conns
    /\ Cardinality(reg.conns[conn].Sessions \ {ch}) = 0

\* closeConnection's loop over sConn.TunnelRefs, in any order
RECURSIVE RemoveRefs(_, _)
RemoveRefs(reg, refs) ==
    IF refs = {} THEN reg
    ELSE LET er == CHOOSE r \in refs : TRUE
         IN  RemoveRefs(removeEndpointTarget(reg, er.Endpoint, er.Target), refs \ {er})

\* delete(s.conns, conn)
DeleteRecord(reg, conn) == [reg EXCEPT !.conns = DeleteKey(reg.conns, conn)]

\* a teardown that deletes the record and leaves its targets in the index
closeConnectionKeepingTargets(reg, conn) ==
    IF conn \notin DOMAIN reg.conns THEN reg ELSE DeleteRecord(reg, conn)

\* closeConnection, under the lock: nothing when the record is absent;
\* otherwise every owned TunnelRef is removed, then the record is deleted
closeConnection(reg, conn) ==
    IF conn \notin DOMAIN reg.conns THEN reg
    ELSE DeleteRecord(RemoveRefs(reg, reg.conns[conn].TunnelRefs), conn)

\* the loop of the tcpip-forward case: a new target per endpoint
RECURSIVE ForwardLoop(_, _, _, _, _)
ForwardLoop(reg, eps, keyID, conn, port) ==
    IF eps = <<>> \/ reg.panicked THEN reg
    ELSE ForwardLoop(
            insertEndpointTarget([reg EXCEPT !.heap = Bump(@, conn)], Head(eps),
                                 NewTarget(Addr(reg, conn), keyID, conn, BindAddr, port)),
            Tail(eps), keyID, conn, port)

\* the loop of the cancel-tcpip-forward case: a new target per endpoint, which
\* is dropped after the call
RECURSIVE CancelLoop(_, _, _, _, _)
CancelLoop(reg, eps, keyID, conn, port) ==
    IF eps = <<>> \/ reg.panicked THEN reg
    ELSE CancelLoop(
            [removeEndpointTarget([reg EXCEPT !.heap = Bump(@, conn)], Head(eps),
                                  NewTarget(Addr(reg, conn), keyID, conn, BindAddr, port))
                EXCEPT !.heap = reg.heap],
            Tail(eps), keyID, conn, port)

\* ------------------------------------------------- the users of the mutex
\* The goroutines that take server.Mutex, each as the sequence of its lock
\* operations, map edits and blocking operations: the main loop of a connection,
\* two session goroutines of it, and an HTTPS goroutine.
Fibers == {"main", "sess1", "sess2", "https"}

\* one operation of a goroutine: what it is and where the goroutine goes next.
\* "lock" is s.Lock(), "unlock" s.Unlock(), "edit" reads and writes of the maps
\* (and "go func", which starts a goroutine and does not wait), "block" an
\* operation that waits for a peer or another goroutine, "end" the return.
Op(op, next) == [op |-> op, next |-> next]

\* a main loop that takes the mutex before the send on msgs
MainProgSendUnderLock ==
    [select       |-> Op("block",  {"lockInsert", "lockRemove", "reply", "lockClose"}),
     lockInsert   |-> Op("lock",   {"sendMsg"}),
     sendMsg      |-> Op("block",  {"insert"}),
     insert       |-> Op("edit",   {"unlockInsert"}),
     unlockInsert |-> Op("unlock", {"reply"}),
     lockRemove   |-> Op("lock",   {"remove"}),
     remove       |-> Op("edit",   {"unlockRemove"}),
     unlockRemove |-> Op("unlock", {"reply"}),
     reply        |-> Op("block",  {"select"}),
     lockClose    |-> Op("lock",   {"close"}),
     close        |-> Op("edit",   {"unlockClose"}),
     unlockClose  |-> Op("unlock", {"done"}),
     done         |-> Op("end",    {})]

\* serveSSHConnection's main loop and its deferred closeConnection: the select;
\* for a tcpip-forward the send on msgs, the locked inserts and the reply; for
\* a cancel the locked removes and the reply; for any other request the reply;
\* on return closeConnection, whose conn.Close() is left to a new goroutine
MainProg ==
    [select       |-> Op("block",  {"sendMsg", "lockRemove", "reply", "lockClose"}),
     sendMsg      |-> Op("block",  {"lockInsert"}),
     lockInsert   |-> Op("lock",   {"insert"}),
     insert       |-> Op("edit",   {"unlockInsert"}),
     unlockInsert |-> Op("unlock", {"reply"}),
     lockRemove   |-> Op("lock",   {"remove"}),
     remove       |-> Op("edit",   {"unlockRemove"}),
     unlockRemove |-> Op("unlock", {"reply"}),
     reply        |-> Op("block",  {"select"}),
     lockClose    |-> Op("lock",   {"close"}),
     close        |-> Op("edit",   {"unlockClose"}),
     unlockClose  |-> Op("unlock", {"done"}),
     done         |-> Op("end",    {})]

\* a session goroutine: startSession, the outputReady send, the session
\* requests, and the deferred endSession
SessionProg ==
    [lockStart    |-> Op("lock",   {"start"}),
     start        |-> Op("edit",   {"unlockStart"}),
     unlockStart  |-> Op("unlock", {"sendReady", "serve"}),
     sendReady    |-> Op("block",  {"serve"}),
     serve        |-> Op("block",  {"closeChannel"}),
     closeChannel |-> Op("block",  {"lockEnd"}),
     lockEnd      |-> Op("lock",   {"end"}),
     end          |-> Op("edit",   {"unlockEnd"}),
     unlockEnd    |-> Op("unlock", {"done"}),
     done         |-> Op("end",    {})]

\* serveHTTPSConnection: the handshake, pickTarget, newPort, OpenChannel, the
\* responses and the splice
HttpsProg ==
    [handshake    |-> Op("block",  {"respond", "lockPick"}),
     lockPick     |-> Op("lock",   {"pick"}),
     pick         |-> Op("edit",   {"unlockPick"}),
     unlockPick   |-> Op("unlock", {"respond", "lockPort"}),
     lockPort     |-> Op("lock",   {"port"}),
     port         |-> Op("edit",   {"unlockPort"}),
     unlockPort   |-> Op("unlock", {"openChannel"}),
     openChannel  |-> Op("block",  {"respond", "splice"}),
     splice       |-> Op("block",  {"done"}),
     respond      |-> Op("block",  {"done"}),
     done         |-> Op("end",    {})]

Prog(f) ==
    CASE f = "main" -> MainProg
      [] f \in {"sess1", "sess2"} -> SessionProg
      [] f = "https" -> HttpsProg

\* where a goroutine starts
Entry(f) ==
    CASE f = "main" -> "select"
      [] f \in {"sess1", "sess2"} -> "lockStart"
      [] f = "https" -> "handshake"

\* ------------------------------------------------------------------- state
VARIABLES
    conns,          \* server.conns
    endpoints,      \* server.endpoints
    heap,           \* per allocating connection, the objects it has kept
    panicSite,      \* "none", or the call in which a goroutine panicked
    sharedCb,       \* sshConfig.PublicKeyCallback of the one shared ServerConfig
    usedCb,         \* the callback in the copy of the config NewServerConn took
    key,            \* serveSSHConnection's local "key", captured by its callback
    keyID,          \* serveSSHConnection's keyID
    vanity,         \* githubEnabled and gitlabEnabled
    connOpen,       \* the SSH connection is up (reqs and newChans are open)
    closePending,   \* a "go conn.Close()" goroutine is to close the open connection
    silent,         \* the client has stopped sending and answering
    mainPc,         \* where serveSSHConnection's goroutine is
    cur,            \* the payload and endpoints of the request last received
    requested,      \* the atomic counter "requested"
    kaPc,           \* where the keepalive goroutine is
    drainPc,        \* where the goroutine draining msgs is
    outputReady,    \* the variable outputReady
    sessPc,         \* where each session goroutine is
    dlPc,           \* where the deadline goroutine of each session is
    hPc,            \* where each serveHTTPSConnection goroutine is
    hName,          \* its SNI name
    hStale,         \* its map reference ep no longer is s.endpoints[name]
    hSnap,          \* history: the bucket as it was at pickTarget's locked read
    hTgt,           \* the target pickTarget returned
    mutex,          \* server.Mutex: "free", or the goroutine that holds it
    at,             \* where each goroutine is in its sequence of lock operations
    spl             \* the splice of each HTTPS connection: copies, half-closes, closes

regVars == <<conns, endpoints, heap, panicSite>>
authVars == <<sharedCb, usedCb, key, keyID, vanity>>
connVars == <<connOpen, closePending, silent, mainPc, cur, requested>>
fiberVars == <<kaPc, drainPc, outputReady, sessPc, dlPc>>
httpsVars == <<hPc, hName, hStale, hSnap, hTgt>>
lockVars == <<mutex, at>>
vars == <<regVars, authVars, connVars, fiberVars, httpsVars, lockVars, spl>>

\* the process is gone
crashed == panicSite # "none"

\* the registry value of the current state
Reg == Registry(conns, endpoints, heap, FALSE)

NilTarget == NewTarget(<<NoConn, 0>>, KeyIDOf(NoKey), NoConn, "", 0)
NoRequest == [type |-> "none", port |-> 0, endpoints |-> <<>>]

\* the answers of the two keyMatchesAccount lookups of one connection
Vanities == {[github |-> FALSE, gitlab |-> FALSE], [github |-> TRUE, gitlab |-> TRUE]}

\* the two copies of a splice: "up" is io.Copy(https, sshChannel), "down" is
\* io.Copy(sshChannel, https)
Dirs == {"up", "down"}

\* a splice before either copy has ended: each copy is "copying", then "copied"
\* (io.Copy has returned), then "done" (half-close made, wg.Done() called)
NoSplice ==
    [up |-> "copying", down |-> "copying",
     tlsWriteClosed |-> FALSE, chWriteClosed |-> FALSE,
     chClosed |-> FALSE, tlsClosed |-> FALSE]

\* newServer(), and the accepted connections before their goroutines have run
Init ==
    /\ conns = <<>>
    /\ endpoints = <<>>
    /\ heap = [c \in Conns |-> 0]
    /\ panicSite = "none"
    /\ sharedCb = NoConn
    /\ usedCb = [c \in Conns |-> NoConn]
    /\ key = [c \in Conns |-> NoKey]
    /\ keyID = [c \in Conns |-> KeyIDOf(NoKey)]
    /\ vanity = [c \in Conns |-> [github |-> FALSE, gitlab |-> FALSE]]
    /\ connOpen = [c \in Conns |-> TRUE]
    /\ closePending = [c \in Conns |-> FALSE]
    /\ silent = [c \in Conns |-> FALSE]
    /\ mainPc = [c \in Conns |-> "new"]
    /\ cur = [c \in Conns |-> NoRequest]
    /\ requested = [c \in Conns |-> 0]
    /\ kaPc = [c \in Conns |-> "unborn"]
    /\ drainPc = [c \in Conns |-> "unborn"]
    /\ outputReady = [c \in Conns |-> FALSE]
    /\ sessPc = [c \in Conns |-> [ch \in Sess |-> "none"]]
    /\ dlPc = [c \in Conns |-> [ch \in Sess |-> "none"]]
    /\ hPc = [h \in Https |-> "accepted"]
    /\ hName = [h \in Https |-> NoSuchHost]
    /\ hStale = [h \in Https |-> FALSE]
    /\ hSnap = [h \in Https |-> {}]
    /\ hTgt = [h \in Https |-> NilTarget]
    /\ spl = [h \in Https |-> NoSplice]
    /\ mutex = "free"
    /\ at = [f \in Fibers |-> Entry(f)]

\* A locked section ends: the new maps, the panic if the call panicked, and
\* every pickTarget holding a reference to a bucket this write unlinked from
\* s.endpoints now holds a map that is empty and stays so.
SetRegistry(reg, site) ==
    /\ conns' = reg.conns
    /\ endpoints' = reg.endpoints
    /\ heap' = reg.heap
    /\ panicSite' = IF reg.panicked THEN site ELSE panicSite
    /\ hStale' = [h \in Https |->
                    hStale[h] \/ (hPc[h] = "choose" /\ hName[h] \notin DOMAIN reg.endpoints)]

\* ------------------------------------------------ serveSSHConnection: handshake
\* config := sshConfig; config.PublicKeyCallback = func ... { key = k }: config
\* is the pointer to the one ServerConfig every connection shares
SetCallback(c) ==
    /\ ~crashed
    /\ mainPc[c] = "new"
    /\ sharedCb' = c
    /\ mainPc' = [mainPc EXCEPT ![c] = "cbset"]
    /\ UNCHANGED <<regVars, usedCb, key, keyID, vanity, connOpen, closePending, silent,
                   cur, requested, fiberVars, httpsVars, lockVars, spl>>

\* ssh.NewServerConn starts: it works on its own copy of *config
NewServerConn(c) ==
    /\ ~crashed
    /\ mainPc[c] = "cbset"
    /\ usedCb' = [usedCb EXCEPT ![c] = sharedCb]
    /\ mainPc' = [mainPc EXCEPT ![c] = "handshake"]
    /\ UNCHANGED <<regVars, sharedCb, key, keyID, vanity, connOpen, closePending, silent,
                   cur, requested, fiberVars, httpsVars, lockVars, spl>>

\* the handshake calls the callback of its config with the client's key: the
\* closure assigns the "key" variable of the goroutine that created it
PublicKeyCallback(c) ==
    /\ ~crashed
    /\ mainPc[c] = "handshake"
    /\ connOpen[c]
    /\ key' = [key EXCEPT ![usedCb[c]] = ClientKey(c)]
    /\ mainPc' = [mainPc EXCEPT ![c] = "authed"]
    /\ UNCHANGED <<regVars, sharedCb, usedCb, keyID, vanity, connOpen, closePending,
                   silent, cur, requested, fiberVars, httpsVars, lockVars, spl>>

\* NewServerConn returns an error: serveSSHConnection returns
HandshakeFails(c) ==
    /\ ~crashed
    /\ mainPc[c] = "handshake"
    /\ mainPc' = [mainPc EXCEPT ![c] = "done"]
    /\ connOpen' = [connOpen EXCEPT ![c] = FALSE]
    /\ UNCHANGED <<regVars, authVars, closePending, silent, cur, requested, fiberVars,
                   httpsVars, lockVars, spl>>

\* keyID := base64(key.Marshal()) panics on a nil key; then the two
\* keyMatchesAccount lookups (any answer), and the goroutines are started
DeriveKeyID(c) ==
    /\ ~crashed
    /\ mainPc[c] = "authed"
    /\ IF key[c] = NoKey
       THEN /\ panicSite' = "key.Marshal"
            /\ UNCHANGED <<conns, endpoints, heap, authVars, connVars, fiberVars,
                           httpsVars, lockVars, spl>>
       ELSE /\ keyID' = [keyID EXCEPT ![c] = KeyIDOf(key[c])]
            /\ \E v \in Vanities : vanity' = [vanity EXCEPT ![c] = v]
            /\ mainPc' = [mainPc EXCEPT ![c] = "select"]
            /\ kaPc' = [kaPc EXCEPT ![c] = "tick"]
            /\ drainPc' = [drainPc EXCEPT ![c] = "wait"]
            /\ UNCHANGED <<regVars, sharedCb, usedCb, key, connOpen, closePending, silent,
                           cur, requested, outputReady, sessPc, dlPc, httpsVars, lockVars, spl>>

\* the goroutines serveSSHConnection starts are running
Serving(c) == kaPc[c] # "unborn"

\* ------------------------------------------------ serveSSHConnection: main loop
\* endpointURLs(conn.User(), key, payload.BindPort, githubEnabled, gitlabEnabled)
\* with the goroutine's variables as they are now
EndpointsOf(c, port) ==
    endpointURLs(User, key[c], port, vanity[c].github, vanity[c].gitlab)

RECURSIVE SumOver(_, _)
SumOver(f, S) ==
    IF S = {} THEN 0
    ELSE LET x == CHOOSE y \in S : TRUE IN f[x] + SumOver(f, S \ {x})

\* the well-formed forward and cancel requests received so far
RequestsSent == SumOver(requested, Conns)

\* the client can send: it is connected and has not gone silent
ClientActive(c) == connOpen[c] /\ ~silent[c]

\* case req := <-reqs can deliver a well-formed forward or cancel request
CanReceive(c) ==
    /\ ~crashed
    /\ mainPc[c] = "select"
    /\ ClientActive(c)
    /\ RequestsSent < MaxReqs

\* a main loop that counts the tcpip-forward requests only
ReceivedCountingForwards(c, type, port, pc) ==
    /\ cur' = [cur EXCEPT ![c] =
                [type |-> type, port |-> port, endpoints |-> EndpointsOf(c, port)]]
    /\ requested' = [requested EXCEPT ![c] = IF type = "tcpip-forward" THEN @ + 1 ELSE @]
    /\ mainPc' = [mainPc EXCEPT ![c] = pc]
    /\ UNCHANGED <<regVars, authVars, connOpen, closePending, silent, fiberVars, httpsVars,
                   lockVars, spl>>

\* the payload is unmarshalled, the endpoints are computed and requested is
\* incremented
Received(c, type, port, pc) ==
    /\ cur' = [cur EXCEPT ![c] =
                [type |-> type, port |-> port, endpoints |-> EndpointsOf(c, port)]]
    /\ requested' = [requested EXCEPT ![c] = @ + 1]
    /\ mainPc' = [mainPc EXCEPT ![c] = pc]
    /\ UNCHANGED <<regVars, authVars, connOpen, closePending, silent, fiberVars, httpsVars,
                   lockVars, spl>>

\* a tcpip-forward arrives; next is the send on msgs
RecvForward(c, port) ==
    /\ CanReceive(c)
    /\ Received(c, "tcpip-forward", port, "sendMsg")

\* msgs <- fmt.Sprintf(...): msgs is unbuffered, so the send completes when the
\* draining goroutine is receiving in "for msg := range msgs"
SendMsg(c) ==
    /\ ~crashed
    /\ mainPc[c] = "sendMsg"
    /\ drainPc[c] = "range"
    /\ drainPc' = [drainPc EXCEPT ![c] = "deliver"]
    /\ mainPc' = [mainPc EXCEPT ![c] = "insert"]
    /\ UNCHANGED <<regVars, authVars, connOpen, closePending, silent, cur, requested, kaPc,
                   outputReady, sessPc, dlPc, httpsVars, lockVars, spl>>

\* the locked loop of a request is over and the reply is sent: back to the select,
\* with the request as the last one handled
RequestDone(c, reg, site) ==
    /\ SetRegistry(reg, site)
    /\ mainPc' = IF reg.panicked THEN mainPc ELSE [mainPc EXCEPT ![c] = "select"]
    /\ UNCHANGED <<authVars, connOpen, closePending, silent, cur, requested, fiberVars,
                   hPc, hName, hSnap, hTgt, lockVars, spl>>

\* s.Lock(); for each endpoint insertEndpointTarget(endpoint, &target{...});
\* s.Unlock(); req.Reply(true, 443)
InsertTargets(c) ==
    /\ ~crashed
    /\ mainPc[c] = "insert"
    /\ RequestDone(c, ForwardLoop(Reg, cur[c].endpoints, keyID[c], c, cur[c].port),
                   "insertEndpointTarget")

\* a cancel-tcpip-forward arrives; next is the locked loop
RecvCancel(c, port) ==
    /\ CanReceive(c)
    /\ Received(c, "cancel-tcpip-forward", port, "remove")

\* s.Lock(); for each endpoint removeEndpointTarget(endpoint, &target{...});
\* s.Unlock(); req.Reply(true, 443)
RemoveTargets(c) ==
    /\ ~crashed
    /\ mainPc[c] = "remove"
    /\ RequestDone(c, CancelLoop(Reg, cur[c].endpoints, keyID[c], c, cur[c].port),
                   "removeEndpointTarget")

\* case req := <-reqs of any other kind (keepalive@openssh.com, an unknown
\* type, a malformed payload): a reply at most
RecvOther(c) ==
    /\ ~crashed
    /\ mainPc[c] = "select"
    /\ ClientActive(c)
    /\ UNCHANGED vars

\* case <-keepalives, a tick the keepalive goroutine is sending
RecvKeepalive(c) ==
    /\ ~crashed
    /\ mainPc[c] = "select"
    /\ kaPc[c] = "deliver"
    /\ kaPc' = [kaPc EXCEPT ![c] = "tick"]
    /\ UNCHANGED <<regVars, authVars, connVars, drainPc, outputReady, sessPc, dlPc,
                   httpsVars, lockVars, spl>>

\* case <-keepalives on the closed channel: ready at once, every time
RecvClosedKeepalive(c) ==
    /\ ~crashed
    /\ mainPc[c] = "select"
    /\ kaPc[c] = "closed"
    /\ UNCHANGED vars

\* return from the main loop: the deferred function starts with close(msgs)
Return(c) ==
    /\ mainPc' = [mainPc EXCEPT ![c] = "closeConnection"]
    /\ UNCHANGED <<regVars, authVars, connOpen, closePending, silent, cur, requested,
                   fiberVars, httpsVars, lockVars, spl>>

\* case req := <-reqs with req == nil (reqs is closed): return
ReqsClosed(c) ==
    /\ ~crashed
    /\ mainPc[c] = "select"
    /\ ~connOpen[c]
    /\ Return(c)

\* the timer case can win only while no other case is ready
TimerCanFire(c) ==
    /\ mainPc[c] = "select"
    /\ connOpen[c]
    /\ kaPc[c] \notin {"deliver", "closed"}

\* case <-time.After(10 * time.Second): return
Timeout(c) ==
    /\ ~crashed
    /\ TimerCanFire(c)
    /\ Return(c)

\* the deferred function after close(msgs): s.closeConnection(conn), which
\* starts "go conn.Close()" when it found the record
CloseConnection(c) ==
    /\ ~crashed
    /\ mainPc[c] = "closeConnection"
    /\ SetRegistry(closeConnection(Reg, c), "closeConnection")
    /\ closePending' = [closePending EXCEPT ![c] = @ \/ (connOpen[c] /\ c \in DOMAIN conns)]
    /\ mainPc' = [mainPc EXCEPT ![c] = "done"]
    /\ UNCHANGED <<authVars, connOpen, silent, cur, requested, fiberVars, hPc, hName,
                   hSnap, hTgt, lockVars, spl>>

\* a goroutine started by closeConnection or endSession runs conn.Close()
AsyncClose(c) ==
    /\ ~crashed
    /\ closePending[c]
    /\ closePending' = [closePending EXCEPT ![c] = FALSE]
    /\ connOpen' = [connOpen EXCEPT ![c] = FALSE]
    /\ UNCHANGED <<regVars, authVars, silent, mainPc, cur, requested, fiberVars, httpsVars,
                   lockVars, spl>>

\* the client closes the connection, or the network drops it
ClientClose(c) ==
    /\ ~crashed
    /\ Serving(c)
    /\ connOpen[c]
    /\ connOpen' = [connOpen EXCEPT ![c] = FALSE]
    /\ closePending' = [closePending EXCEPT ![c] = FALSE]
    /\ UNCHANGED <<regVars, authVars, silent, mainPc, cur, requested, fiberVars, httpsVars,
                   lockVars, spl>>

\* the client stops sending and answering while the connection stays up
GoSilent(c) ==
    /\ ~crashed
    /\ Serving(c)
    /\ ClientActive(c)
    /\ silent' = [silent EXCEPT ![c] = TRUE]
    /\ UNCHANGED <<regVars, authVars, connOpen, closePending, mainPc, cur, requested,
                   fiberVars, httpsVars, lockVars, spl>>

\* ------------------------------------------- serveSSHConnection: goroutines
\* keepalive goroutine: a tick, SendRequest was answered, now "keepalives <- v"
KeepaliveTick(c) ==
    /\ ~crashed
    /\ kaPc[c] = "tick"
    /\ ClientActive(c)
    /\ kaPc' = [kaPc EXCEPT ![c] = "deliver"]
    /\ UNCHANGED <<regVars, authVars, connVars, drainPc, outputReady, sessPc, dlPc,
                   httpsVars, lockVars, spl>>

\* keepalive goroutine: a tick, SendRequest failed: close(keepalives); return
KeepaliveFails(c) ==
    /\ ~crashed
    /\ kaPc[c] = "tick"
    /\ ~connOpen[c]
    /\ kaPc' = [kaPc EXCEPT ![c] = "closed"]
    /\ UNCHANGED <<regVars, authVars, connVars, drainPc, outputReady, sessPc, dlPc,
                   httpsVars, lockVars, spl>>

\* the session channels accepted so far
SessionsOpened == Cardinality({<<c, ch>> \in Conns \X Sess : sessPc[c][ch] # "none"})

\* channels of one connection are numbered in the order they are opened
NextChannel(c) == Cardinality({ch \in Sess : sessPc[c][ch] # "none"}) + 1

\* new-channel goroutine: a "session" channel is accepted; its goroutine runs
\* s.startSession(keyID, conn, channel), then "if !outputReady"; past it, the
\* reader and the deadline goroutines are started
StartSession(c, ch) ==
    /\ ~crashed
    /\ Serving(c)
    /\ ClientActive(c)
    /\ SessionsOpened < MaxSess
    /\ ch = NextChannel(c)
    /\ SetRegistry(startSession(Reg, keyID[c], c, ch), "startSession")
    /\ sessPc' = [sessPc EXCEPT ![c][ch] = IF outputReady[c] THEN "serving" ELSE "sendReady"]
    /\ dlPc' = [dlPc EXCEPT ![c][ch] = IF outputReady[c] THEN "armed" ELSE "none"]
    /\ UNCHANGED <<authVars, connVars, kaPc, drainPc, outputReady, hPc, hName, hSnap, hTgt,
                   lockVars, spl>>

\* session goroutine: "outputReadyCh <- v; outputReady = true"; the channel is
\* unbuffered and its one receive is the first statement of the draining goroutine
SendOutputReady(c, ch) ==
    /\ ~crashed
    /\ sessPc[c][ch] = "sendReady"
    /\ drainPc[c] = "wait"
    /\ drainPc' = [drainPc EXCEPT ![c] = "range"]
    /\ outputReady' = [outputReady EXCEPT ![c] = TRUE]
    /\ sessPc' = [sessPc EXCEPT ![c][ch] = "serving"]
    /\ dlPc' = [dlPc EXCEPT ![c][ch] = "armed"]
    /\ UNCHANGED <<regVars, authVars, connVars, kaPc, httpsVars, lockVars, spl>>

\* s.endSession(conn, channel): the registry part and the scheduled close
EndSessionStep(c, ch, pc) ==
    /\ ~crashed
    /\ SetRegistry(endSession(Reg, c, ch), "endSession")
    /\ closePending' = [closePending EXCEPT ![c] =
                            @ \/ (connOpen[c] /\ endSessionCloses(Reg, c, ch))]
    /\ sessPc' = [sessPc EXCEPT ![c][ch] = pc]
    /\ UNCHANGED <<authVars, connOpen, silent, mainPc, cur, requested, kaPc, drainPc,
                   outputReady, dlPc, hPc, hName, hSnap, hTgt, lockVars, spl>>

\* reader goroutine: Ctrl-C or Ctrl-D was read: s.endSession(conn, channel),
\* which closes the channel
CtrlC(c, ch) ==
    /\ sessPc[c][ch] = "serving"
    /\ ClientActive(c)
    /\ EndSessionStep(c, ch, "interrupted")

\* session goroutine: the client closes the channel, "range sessionReqs" ends:
\* the deferred s.endSession(conn, channel)
ClientEndsSession(c, ch) ==
    /\ sessPc[c][ch] = "serving"
    /\ ClientActive(c)
    /\ EndSessionStep(c, ch, "ended")

\* session goroutine: "range sessionReqs" ends because the server closed the
\* channel or the connection is closed: the deferred s.endSession(conn, channel)
SessionReturns(c, ch) ==
    /\ \/ sessPc[c][ch] \in {"interrupted", "closed"}
       \/ sessPc[c][ch] = "serving" /\ ~connOpen[c]
    /\ EndSessionStep(c, ch, "ended")

\* "if atomic.LoadInt32(&requested) == 0"
UsageDue(c) == requested[c] = 0

\* failWithUsage(channel) on a channel in the given state: the usage line and
\* exit-status 1 are written and the channel is closed; on a channel already
\* closed the writes and the close fail and nothing changes
failWithUsage(pc) == IF pc = "serving" THEN "closed" ELSE pc

\* deadline goroutine: one second after it was started, failWithUsage(channel)
\* when requested is still 0, nothing otherwise
DeadlineFires(c, ch) ==
    /\ ~crashed
    /\ dlPc[c][ch] = "armed"
    /\ dlPc' = [dlPc EXCEPT ![c][ch] = IF UsageDue(c) THEN "usage" ELSE "quiet"]
    /\ sessPc' = [sessPc EXCEPT ![c][ch] = IF UsageDue(c) THEN failWithUsage(@) ELSE @]
    /\ UNCHANGED <<regVars, authVars, connVars, kaPc, drainPc, outputReady, httpsVars,
                   lockVars, spl>>

\* draining goroutine: the message is written to every session of
\* s.conns[conn]; back to "range msgs"
DrainDeliver(c) ==
    /\ ~crashed
    /\ drainPc[c] = "deliver"
    /\ drainPc' = [drainPc EXCEPT ![c] = "range"]
    /\ UNCHANGED <<regVars, authVars, connVars, kaPc, outputReady, sessPc, dlPc, httpsVars,
                   lockVars, spl>>

\* close(msgs) has run
MsgsClosed(c) == mainPc[c] \in {"closeConnection", "done"} /\ Serving(c)

\* draining goroutine: "range msgs" ends on the closed channel
DrainReturns(c) ==
    /\ ~crashed
    /\ drainPc[c] = "range"
    /\ MsgsClosed(c)
    /\ drainPc' = [drainPc EXCEPT ![c] = "done"]
    /\ UNCHANGED <<regVars, authVars, connVars, kaPc, outputReady, sessPc, dlPc, httpsVars,
                   lockVars, spl>>

\* ---------------------------------------------------- serveHTTPSConnection
\* the TLS handshake completes with SNI name; name == *domain is answered 307
HttpsHandshake(h, name) ==
    /\ ~crashed
    /\ hPc[h] = "accepted"
    /\ hName' = [hName EXCEPT ![h] = name]
    /\ hPc' = [hPc EXCEPT ![h] = IF name = domain THEN "307" ELSE "pickTarget"]
    /\ UNCHANGED <<regVars, authVars, connVars, fiberVars, hStale, hSnap, hTgt, lockVars, spl>>

\* pickTarget, the locked part: ep, found := s.endpoints[endpoint]; ep is a
\* reference to the bucket, not a copy.  Not found: nil, answered 503.
PickTargetRead(h) ==
    /\ ~crashed
    /\ hPc[h] = "pickTarget"
    /\ hPc' = [hPc EXCEPT ![h] = IF hName[h] \in DOMAIN endpoints THEN "choose" ELSE "503"]
    /\ hStale' = [hStale EXCEPT ![h] = FALSE]
    /\ hSnap' = [hSnap EXCEPT ![h] =
                    IF hName[h] \in DOMAIN endpoints THEN endpoints[hName[h]] ELSE {}]
    /\ UNCHANGED <<regVars, authVars, connVars, fiberVars, hName, hTgt, lockVars, spl>>

\* what ranging over ep yields now
Candidates(h) == IF hStale[h] THEN {} ELSE endpoints[hName[h]]

\* pickTarget, after the unlock: the candidates are collected from ep as it is
\* now and one is drawn; rand.Intn(0) panics when there is none
PickTargetChoose(h) ==
    /\ ~crashed
    /\ hPc[h] = "choose"
    /\ IF Candidates(h) = {}
       THEN /\ panicSite' = "rand.Intn"
            /\ UNCHANGED <<conns, endpoints, heap, authVars, connVars, fiberVars,
                           httpsVars, lockVars, spl>>
       ELSE /\ \E t \in Candidates(h) : hTgt' = [hTgt EXCEPT ![h] = t]
            /\ hPc' = [hPc EXCEPT ![h] = "newPort"]
            /\ UNCHANGED <<regVars, authVars, connVars, fiberVars, hName, hStale, hSnap,
                           lockVars, spl>>

\* the argument of OpenChannel is evaluated first: s.newPort(tgt.Remote)
NewPort(h) ==
    /\ ~crashed
    /\ hPc[h] = "newPort"
    /\ LET reg == newPort(Reg, hTgt[h].Remote)
       IN  /\ SetRegistry(reg, "newPort")
           /\ hPc' = IF reg.panicked THEN hPc ELSE [hPc EXCEPT ![h] = "openChannel"]
    /\ UNCHANGED <<authVars, connVars, fiberVars, hName, hSnap, hTgt, lockVars, spl>>

\* tgt.Remote.OpenChannel("forwarded-tcpip", ...): an error (always, on a
\* closed connection) is answered 502; otherwise the splice starts
OpenChannel(h) ==
    /\ ~crashed
    /\ hPc[h] = "openChannel"
    /\ \E ok \in {b \in BOOLEAN : b => ClientActive(hTgt[h].Remote)} :
            hPc' = [hPc EXCEPT ![h] = IF ok THEN "splice" ELSE "502"]
    /\ UNCHANGED <<regVars, authVars, connVars, fiberVars, hName, hStale, hSnap, hTgt,
                   lockVars, spl>>

\* ------------------------------------------------------------- the splice
\* io.Copy of direction d returns, at EOF or on an error
CopyEnds(h, d) ==
    /\ ~crashed
    /\ hPc[h] = "splice"
    /\ spl[h][d] = "copying"
    /\ spl' = [spl EXCEPT ![h][d] = "copied"]
    /\ UNCHANGED <<regVars, authVars, connVars, fiberVars, httpsVars, lockVars>>

\* the copying goroutine half-closes the side it wrote to and calls wg.Done():
\* https.CloseWrite() after the copy to TLS, sshChannel.CloseWrite() after the
\* copy to the channel
HalfClose(h, d) ==
    /\ ~crashed
    /\ spl[h][d] = "copied"
    /\ spl' = [spl EXCEPT ![h] =
                [@ EXCEPT ![d] = "done",
                          !.tlsWriteClosed = @ \/ d = "up",
                          !.chWriteClosed = @ \/ d = "down"]]
    /\ UNCHANGED <<regVars, authVars, connVars, fiberVars, httpsVars, lockVars>>

\* a wg.Wait() that returns after the first wg.Done()
WgWaitForOne(h) == spl[h].up = "done" \/ spl[h].down = "done"

\* wg.Wait() can return: wg.Done() has been called twice
WgWait(h) == spl[h].up = "done" /\ spl[h].down = "done"

\* wg.Wait() returns and the function with it; the deferred functions run last
\* in, first out: sshChannel.Close()
SpliceReturns(h) ==
    /\ ~crashed
    /\ hPc[h] = "splice"
    /\ WgWait(h)
    /\ spl' = [spl EXCEPT ![h].chClosed = TRUE]
    /\ hPc' = [hPc EXCEPT ![h] = "closeTLS"]
    /\ UNCHANGED <<regVars, authVars, connVars, fiberVars, hName, hStale, hSnap, hTgt,
                   lockVars>>

\* the first deferred function: https.Close()
CloseTLS(h) ==
    /\ ~crashed
    /\ hPc[h] = "closeTLS"
    /\ spl' = [spl EXCEPT ![h].tlsClosed = TRUE]
    /\ hPc' = [hPc EXCEPT ![h] = "closed"]
    /\ UNCHANGED <<regVars, authVars, connVars, fiberVars, hName, hStale, hSnap, hTgt,
                   lockVars>>

\* ------------------------------------------------------ steps on the mutex
\* the operation goroutine f is at
Here(f) == Prog(f)[at[f]]

GoOn(f) ==
    /\ \E pc \in Here(f).next : at' = [at EXCEPT ![f] = pc]
    /\ UNCHANGED <<regVars, authVars, connVars, fiberVars, httpsVars, spl>>

\* s.Lock(): waits until the mutex is free
Lock(f) ==
    /\ Here(f).op = "lock"
    /\ mutex = "free"
    /\ mutex' = f
    /\ GoOn(f)

\* s.Unlock(), written out or deferred
Unlock(f) ==
    /\ Here(f).op = "unlock"
    /\ mutex' = "free"
    /\ GoOn(f)

\* the map edits of a locked section
Edit(f) ==
    /\ Here(f).op = "edit"
    /\ UNCHANGED mutex
    /\ GoOn(f)

\* a blocking operation completes; nothing says that it ever does
Unblock(f) ==
    /\ Here(f).op = "block"
    /\ UNCHANGED mutex
    /\ GoOn(f)

\* ------------------------------------------------------------ specifications
\* the goroutine of serveSSHConnection
MainStep(c) ==
    \/ SetCallback(c)
    \/ NewServerConn(c)
    \/ PublicKeyCallback(c)
    \/ HandshakeFails(c)
    \/ DeriveKeyID(c)
    \/ \E port \in Ports : RecvForward(c, port)
    \/ SendMsg(c)
    \/ InsertTargets(c)
    \/ \E port \in Ports : RecvCancel(c, port)
    \/ RemoveTargets(c)
    \/ RecvOther(c)
    \/ ReqsClosed(c)
    \/ Timeout(c)
    \/ CloseConnection(c)
    \/ AsyncClose(c)
    \/ ClientClose(c)

\* the session goroutines and the goroutine draining msgs
SessionStep(c) ==
    \/ \E ch \in Sess : StartSession(c, ch)
    \/ \E ch \in Sess : SendOutputReady(c, ch)
    \/ \E ch \in Sess : ClientEndsSession(c, ch)
    \/ \E ch \in Sess : SessionReturns(c, ch)
    \/ DrainDeliver(c)
    \/ DrainReturns(c)

\* the reader goroutine of a session
ReaderStep(c) == \E ch \in Sess : CtrlC(c, ch)

\* the deadline goroutine of a session
DeadlineStep(c) == \E ch \in Sess : DeadlineFires(c, ch)

\* the keepalive goroutine and the main loop's case for it
KeepaliveStep(c) ==
    \/ KeepaliveTick(c)
    \/ KeepaliveFails(c)
    \/ RecvKeepalive(c)
    \/ RecvClosedKeepalive(c)

\* a serveHTTPSConnection goroutine
HttpsStep(h) ==
    \/ \E name \in Hostnames \cup {NoSuchHost, domain} : HttpsHandshake(h, name)
    \/ PickTargetRead(h)
    \/ PickTargetChoose(h)
    \/ NewPort(h)
    \/ OpenChannel(h)

\* two tunnel-control connections on the registry
Next == \E c \in Conns : MainStep(c) \/ SessionStep(c)

Spec == Init /\ [][Next]_vars

\* one tunnel-control connection and an HTTPS request
HttpsNext ==
    \/ MainStep("c1")
    \/ SessionStep("c1")
    \/ ReaderStep("c1")
    \/ \E h \in Https : HttpsStep(h)

HttpsSpec == Init /\ [][HttpsNext]_vars

\* the goroutines of a splice
SpliceStep(h) ==
    \/ \E d \in Dirs : CopyEnds(h, d)
    \/ \E d \in Dirs : HalfClose(h, d)
    \/ SpliceReturns(h)
    \/ CloseTLS(h)

\* one tunnel-control connection and an HTTPS request spliced to it
SpliceNext ==
    \/ MainStep("c1")
    \/ SessionStep("c1")
    \/ \E h \in Https : HttpsStep(h)
    \/ \E h \in Https : SpliceStep(h)

SpliceSpec == Init /\ [][SpliceNext]_vars

\* one tunnel-control connection with the deadline goroutines of its sessions
UsageNext ==
    \/ MainStep("c1")
    \/ SessionStep("c1")
    \/ ReaderStep("c1")
    \/ DeadlineStep("c1")

UsageSpec == Init /\ [][UsageNext]_vars

\* one tunnel-control connection with its keepalive goroutine and a client that
\* may go silent
LiveNext ==
    \/ MainStep("c1")
    \/ SessionStep("c1")
    \/ ReaderStep("c1")
    \/ KeepaliveStep("c1")
    \/ GoSilent("c1")

\* a step of a goroutine of the server for connection c that waits for nothing
\* the client does
ServerStep(c) ==
    \/ SetCallback(c)
    \/ NewServerConn(c)
    \/ DeriveKeyID(c)
    \/ SendMsg(c)
    \/ InsertTargets(c)
    \/ RemoveTargets(c)
    \/ ReqsClosed(c)
    \/ Timeout(c)
    \/ CloseConnection(c)
    \/ AsyncClose(c)
    \/ KeepaliveFails(c)
    \/ RecvKeepalive(c)
    \/ DrainDeliver(c)
    \/ DrainReturns(c)
    \/ \E ch \in Sess : SendOutputReady(c, ch) \/ SessionReturns(c, ch)

\* The scheduler runs every goroutine that can take a step, a select whose
\* timer is the only case that can become ready returns through it, and a
\* closed connection fails the keepalive's SendRequest.  No step of the client
\* is assumed.
Fairness(c) ==
    /\ WF_vars(SetCallback(c))
    /\ WF_vars(NewServerConn(c))
    /\ WF_vars(DeriveKeyID(c))
    /\ WF_vars(SendMsg(c))
    /\ WF_vars(InsertTargets(c))
    /\ WF_vars(RemoveTargets(c))
    /\ WF_vars(ReqsClosed(c))
    /\ WF_vars(Timeout(c))
    /\ WF_vars(CloseConnection(c))
    /\ WF_vars(AsyncClose(c))
    /\ WF_vars(KeepaliveFails(c))
    /\ WF_vars(RecvKeepalive(c))
    /\ WF_vars(DrainDeliver(c))
    /\ WF_vars(DrainReturns(c))
    /\ \A ch \in Sess : WF_vars(SendOutputReady(c, ch)) /\ WF_vars(SessionReturns(c, ch))

LiveSpec == Init /\ [][LiveNext]_vars /\ Fairness("c1")

\* the goroutines that take the mutex, step by step
MutexStep(f) ==
    \/ Lock(f)
    \/ Edit(f)
    \/ Unlock(f)
    \/ Unblock(f)

MutexNext == \E f \in Fibers : MutexStep(f)

\* A goroutine that can run does: map edits and unlocks are taken, and a
\* goroutine waiting in s.Lock() gets the mutex if it is free again and again
\* (sync.Mutex hands a starving waiter the mutex).  Blocking operations need
\* not complete.
MutexFairness ==
    \A f \in Fibers : WF_vars(Edit(f)) /\ WF_vars(Unlock(f)) /\ SF_vars(Lock(f))

MutexSpec == Init /\ [][MutexNext]_vars /\ MutexFairness
\* -------------------------------------------------------------- properties
\* the targets connection c owns under hostname e
OwnedUnder(c, e) ==
    IF e \in DOMAIN endpoints THEN {t \in endpoints[e] : t.Remote = c} ELSE {}

\* closeConnection(c) has completed
TornDown(c) == mainPc[c] = "done" /\ Serving(c)

\* C1: once a connection has handled a cancel-tcpip-forward for port p (after
\* a tcpip-forward for p or not), the endpoint index holds no target of that
\* connection under any hostname endpointURLs derives for p.
C1_CancelRemovesTargets ==
    \A c \in Conns :
        (mainPc[c] = "select" /\ cur[c].type = "cancel-tcpip-forward")
            => \A e \in Range(cur[c].endpoints) : OwnedUnder(c, e) = {}

\* C2: once closeConnection(c) has completed, the connection index has no
\* entry for c and no bucket of the endpoint index holds a target owned by c,
\* whatever the session goroutines of c do afterwards.
C2_TornDownLeavesNothing ==
    \A c \in Conns :
        TornDown(c) =>
            /\ c \notin DOMAIN conns
            /\ \A e \in DOMAIN endpoints : OwnedUnder(c, e) = {}

\* C3: when the connection of the target pickTarget returned has been torn
\* down before the channel-open, no step of the HTTPS task fails before the
\* channel-open: newPort on the target's connection does not panic.
C3_TornDownTargetReachesChannelOpen ==
    \A h \in Https :
        (hPc[h] \in {"newPort", "openChannel"} /\ TornDown(hTgt[h].Remote))
            => panicSite # "newPort"

\* C4: pickTarget returns none when the hostname is no key of the endpoint
\* index at the locked read; otherwise it returns a member of the set as it
\* was at the locked read, and the set it chooses from is never empty.
C4_PickTargetChoosesFromLockedRead ==
    /\ panicSite # "rand.Intn"
    /\ \A h \in Https :
        /\ hPc[h] = "503" => hSnap[h] = {}
        /\ hPc[h] \in {"newPort", "openChannel", "splice", "502"} => hTgt[h] \in hSnap[h]

\* C5: every target carries the KeyID of the key its own connection
\* authenticated with, and a fingerprint hostname holds targets only of the
\* connection that authenticated with the key the hostname is derived from.
C5_TargetsCarryOwnKey ==
    \A e \in DOMAIN endpoints : \A t \in endpoints[e] :
        /\ t.KeyID = KeyIDOf(ClientKey(t.Remote))
        /\ e[1] = "b32" => e[2] = ClientKey(t.Remote)

\* C6: when the SSH connection of a served client is closed, the main loop
\* eventually returns and closeConnection runs.
C6_DisconnectTearsDown ==
    \A c \in Conns : (Serving(c) /\ ~connOpen[c]) ~> TornDown(c)

\* C7: a served connection whose client has gone silent (no request arrives,
\* no keepalive is answered) is eventually torn down, in whatever state the
\* connection is when the client goes silent.
C7_SilenceTearsDown ==
    \A c \in Conns : (Serving(c) /\ silent[c]) ~> TornDown(c)

\* C8: every hostname that is a key of the endpoint index maps to a non-empty
\* set of targets.
C8_NoEmptyBucket == \A e \in DOMAIN endpoints : endpoints[e] # {}

\* C8 witness: a connection whose last request registered a hostname has been
\* torn down, and the hostname's bucket lives on with another's targets only
C8_SharedBucketSurvivesOwner ==
    \E c \in Conns :
        /\ TornDown(c)
        /\ cur[c].type = "tcpip-forward"
        /\ \E e \in Range(cur[c].endpoints) \cap DOMAIN endpoints :
                endpoints[e] # {} /\ OwnedUnder(c, e) = {}

\* C9: for every target t in a bucket of the endpoint index, t.Remote has a
\* record in the connection index whose TunnelRefs hold exactly one TunnelRef
\* with Target t, and that TunnelRef's Endpoint is the bucket's hostname.
C9_OneTunnelRefPerTarget ==
    \A e \in DOMAIN endpoints : \A t \in endpoints[e] :
        /\ t.Remote \in DOMAIN conns
        /\ LET refs == {r \in conns[t.Remote].TunnelRefs : r.Target = t}
           IN  Cardinality(refs) = 1 /\ \A r \in refs : r.Endpoint = e

\* C9 witness: a bucket shared by the targets of two connections
C9_SharedBucket ==
    \E e \in DOMAIN endpoints : \E t1, t2 \in endpoints[e] : t1.Remote # t2.Remote

\* C10: removeEndpointTarget(e, t) for a pair that is not present, such as the
\* fresh target of a cancel-tcpip-forward on a connection without a record,
\* completes without a panic.
C10_RemoveOfAbsentTargetCompletes ==
    \A c \in Conns : mainPc[c] = "remove" => panicSite # "removeEndpointTarget"

\* insertEndpointTarget(e, t) immediately followed by removeEndpointTarget(e, t),
\* for a new target t of connection c, on the registry of the current state
InsertThenRemove(c, e) ==
    LET t == NewTarget(Addr(Reg, c), keyID[c], c, BindAddr, 1)
    IN  removeEndpointTarget(
            insertEndpointTarget([Reg EXCEPT !.heap = Bump(@, c)], e, t), e, t)

\* C11: in every reachable registry state, for every hostname e and every
\* target t whose connection has a record, insertEndpointTarget(e, t) followed
\* by removeEndpointTarget(e, t) gives back the endpoint index as it was and
\* leaves the connection's TunnelRefs as they were before the insert.
C11_InsertThenRemoveRestores ==
    \A c \in DOMAIN conns : \A e \in Hostnames :
        LET after == InsertThenRemove(c, e)
        IN  /\ after.endpoints = endpoints
            /\ after.conns[c].TunnelRefs = conns[c].TunnelRefs

\* C12: when the deadline of a session fires and no well-formed tcpip-forward
\* or cancel-tcpip-forward has been taken up by the main loop of its connection,
\* the usage is written and the channel is closed with exit status 1 (a channel
\* that is still open ends up closed); when a forward or a cancel has been
\* taken up, the deadline goroutine leaves the session as it is.
C12_UsageIffNoRequest ==
    [][\A c \in Conns : \A ch \in Sess :
        (dlPc[c][ch] = "armed" /\ dlPc'[c][ch] # "armed") =>
            IF cur[c].type = "none"
            THEN /\ dlPc'[c][ch] = "usage"
                 /\ sessPc'[c][ch] # "serving"
            ELSE /\ dlPc'[c][ch] = "quiet"
                 /\ sessPc'[c][ch] = sessPc[c][ch]]_vars

\* C12 reached: the deadline of a session of a cancel-only client has fired and
\* left the session serving
C12_CancelOnlyClientLeftAlone ==
    \E c \in Conns : \E ch \in Sess :
        /\ dlPc[c][ch] = "quiet"
        /\ sessPc[c][ch] = "serving"
        /\ requested[c] = 1
        /\ cur[c].type = "cancel-tcpip-forward"

\* endSession has emptied the session set of connection c
NoSessionLeft(c) == c \in DOMAIN conns /\ conns[c].Sessions = {}

\* C13: once endSession has emptied the session set of a connection, the SSH
\* connection is eventually closed and closeConnection eventually removes the
\* connection's record: the server never comes to rest, no goroutine of the
\* connection having a step to take, with the emptied record still in the
\* connection index.
C13_LastSessionEndTearsDown ==
    \A c \in Conns : NoSessionLeft(c) => ENABLED ServerStep(c)

\* the session channels the draining goroutine writes a message to: the
\* Sessions of s.conns[conn], or none when the record is nil
Recipients(c) == IF c \in DOMAIN conns THEN conns[c].Sessions ELSE {}

\* session channel ch of c is open: accepted, and closed by neither side
ChannelOpen(c, ch) == connOpen[c] /\ sessPc[c][ch] \in {"sendReady", "serving"}

\* the step in which the draining goroutine writes the message it holds
Delivers(c) == drainPc[c] = "deliver" /\ drainPc'[c] = "range"

\* the targets of the request in hand are in the index after this step
Inserted(c) ==
    \A e \in Range(cur[c].endpoints) :
        /\ e \in DOMAIN endpoints'
        /\ \E t \in endpoints'[e] : t.Remote = c /\ t.Port = cur[c].port

\* C14 (as stated): every announcement is written to every session channel
\* that is open at delivery time.
C14_WrittenToEveryOpenSession ==
    [][\A c \in Conns : Delivers(c) =>
            \A ch \in Sess : ChannelOpen(c, ch) => ch \in Recipients(c)]_vars

\* Up to the teardown of the connection the statement holds: an announcement
\* delivered before closeConnection has begun is written to every open session
\* channel; it is handed to the draining goroutine only after outputReady has
\* fired and the previous announcement has been written, so announcements go
\* out in arrival order; and the request is replied to only after its targets
\* are in the endpoint index.
AnnouncedBeforeTeardown ==
    [][\A c \in Conns :
        /\ (Delivers(c) /\ mainPc[c] \notin {"closeConnection", "done"}) =>
                \A ch \in Sess : ChannelOpen(c, ch) => ch \in Recipients(c)
        /\ (mainPc[c] = "sendMsg" /\ mainPc'[c] # "sendMsg") =>
                /\ outputReady[c]
                /\ drainPc[c] = "range" /\ drainPc'[c] = "deliver"
                /\ cur'[c] = cur[c]
        /\ (mainPc[c] = "insert" /\ mainPc'[c] = "select") => Inserted(c)]_vars

\* C14 witness: the draining goroutine holds an announcement, a session channel
\* is open, and the connection's record is gone from the connection index
C14_DeliveryAfterTeardown ==
    \E c \in Conns : \E ch \in Sess :
        /\ drainPc[c] = "deliver"
        /\ ChannelOpen(c, ch)
        /\ c \notin DOMAIN conns

\* the outcomes of serveHTTPSConnection after a completed handshake
Outcomes == {"307", "503", "502", "splice"}

\* the goroutine of HTTPS connection h has died in a panic of its own
DiedInPanic(h) == hPc[h] \in {"choose", "newPort"} /\ panicSite \in {"rand.Intn", "newPort"}

\* C15: after the handshake every HTTPS connection ends in one outcome, fixed
\* by the SNI and the registry: 307 exactly for the base domain; 503 only for
\* a name without a bucket; 502 or the splice only for a name with a bucket;
\* and no connection ends without an outcome.
C15_OneOutcomeBySNI ==
    \A h \in Https :
        /\ ~DiedInPanic(h)
        /\ hPc[h] = "307" <=> (hPc[h] # "accepted" /\ hName[h] = domain)
        /\ hPc[h] = "503" => hName[h] # domain /\ hSnap[h] = {}
        /\ hPc[h] \in {"502", "splice"} => hName[h] # domain /\ hSnap[h] # {}

\* C15 witness: a connection past the handshake whose goroutine has panicked
\* before any of the four outcomes
C15_EndsWithoutOutcome ==
    \E h \in Https : DiedInPanic(h) /\ hPc[h] \notin Outcomes /\ hName[h] \in Hostnames

\* a step of some goroutine that writes the connection index or a record in it;
\* every one of them is made under the mutex
WritesConns == HttpsNext /\ conns' # conns

\* a step of some goroutine that writes the bucket of hostname e
WritesBucket(e) ==
    /\ HttpsNext
    /\ e \in DOMAIN endpoints
    /\ e \notin DOMAIN endpoints' \/ endpoints'[e] # endpoints[e]

\* the draining goroutine of c is about to read s.conns[conn] and to range over
\* c.Sessions; it holds no lock
DrainReadsUnlocked(c) == ENABLED DrainDeliver(c)

\* pickTarget of h has unlocked and is about to range over the bucket
PickTargetReadsUnlocked(h) == ENABLED PickTargetChoose(h)

\* C16: every access to the registry is made under the mutex, so no goroutine
\* reads or ranges over a registry map at a point where another goroutine can
\* be writing it.
C16_NoReadBesideWrite ==
    /\ \A c \in Conns : DrainReadsUnlocked(c) => ~ENABLED WritesConns
    /\ \A h \in Https : PickTargetReadsUnlocked(h) => ~ENABLED WritesBucket(hName[h])

\* C16 witness: the draining goroutine is about to range over c.Sessions
\* while a session goroutine of the same connection is about to add to it
C16_DrainRangesWhileSessionStarts ==
    \E c \in Conns :
        /\ DrainReadsUnlocked(c)
        /\ c \in DOMAIN conns
        /\ ENABLED (\E ch \in Sess : StartSession(c, ch))

\* session goroutine ch of c is at "outputReadyCh <- v"
SendingOutputReady(c, ch) == sessPc[c][ch] = "sendReady"

\* the draining goroutine of c is at "<-outputReadyCh", the one receive there is
OutputReadyAwaited(c) == drainPc[c] = "wait"

\* C17: outputReady is sent once, by the first session, and no session
\* goroutine blocks for ever on sending it: whenever a session goroutine is at
\* the send, the draining goroutine is still there to receive it.
C17_OutputReadySendNeverStuck ==
    \A c \in Conns : \A ch \in Sess :
        SendingOutputReady(c, ch) => OutputReadyAwaited(c)

\* C17 witness: the signal has been received from one session and another
\* session of the connection is at the send
C17_SecondSenderStuck ==
    \E c \in Conns : \E ch \in Sess :
        /\ SendingOutputReady(c, ch)
        /\ outputReady[c]
        /\ ~ENABLED SendOutputReady(c, ch)

\* goroutine f is waiting in s.Lock()
WantsMutex(f) == Here(f).op = "lock"

BothCopiesOver(h) == \A d \in Dirs : spl[h][d] = "done"

\* C19: of an opened forwarded-tcpip channel, the copy to TLS is over with TLS
\* writes half-closed and the copy to the channel is over with the channel's
\* writes half-closed; the channel and the TLS connection are closed only when
\* both copies are over, and once both are over the goroutine is closing them
\* or has closed them: it does not stay in the splice.
C19_HalfCloseThenClose ==
    \A h \in Https :
        /\ spl[h].up = "done" <=> spl[h].tlsWriteClosed
        /\ spl[h].down = "done" <=> spl[h].chWriteClosed
        /\ (spl[h].chClosed \/ spl[h].tlsClosed) => BothCopiesOver(h)
        /\ hPc[h] = "closed" <=> (spl[h].chClosed /\ spl[h].tlsClosed)
        /\ (BothCopiesOver(h) /\ hPc[h] # "closed" /\ ~crashed) =>
                ENABLED (SpliceReturns(h) \/ CloseTLS(h))

\* C19 witness: both copies are over, both sides are half-closed, and the
\* channel and the TLS connection have been closed
C19_SpliceClosed ==
    \E h \in Https :
        /\ hPc[h] = "closed"
        /\ spl[h].tlsWriteClosed /\ spl[h].chWriteClosed
        /\ spl[h].chClosed /\ spl[h].tlsClosed

\* the keepalive goroutine and the draining goroutine of c have returned
HelpersReturned(c) == kaPc[c] = "closed" /\ drainPc[c] = "done"

\* C20: after the main loop of a connection has returned and closeConnection
\* has run, the keepalive goroutine and the draining goroutine terminate:
\* while either is still there, the server has a step left to take for the
\* connection; neither is left blocked with nothing to wake it.
C20_HelpersEndAfterMainLoop ==
    \A c \in Conns :
        (TornDown(c) /\ ~crashed /\ ~HelpersReturned(c)) => ENABLED ServerStep(c)

\* C20 witness: the main loop has returned, the connection is closed, no
\* session is open, and the keepalive goroutine is at "keepalives <- v" or the
\* draining goroutine at "<-outputReadyCh"
C20_HelperLeftBlocked ==
    \E c \in Conns :
        /\ TornDown(c) /\ ~connOpen[c]
        /\ \A ch \in Sess : sessPc[c][ch] \in {"none", "ended"}
        /\ kaPc[c] = "deliver" \/ drainPc[c] = "wait"

====
